---------------------------- MODULE Spec2Model ----------------------------
(***************************************************************************)
(* A model of PayRegister.py: the CPU and the accelerated payroll          *)
(* generators, the net-pay recomputation, the two timed runs and main.     *)
(*                                                                         *)
(* Numbers.  A stored monetary field (np.round(x, 2)) is an integer number *)
(* of cents.  An unrounded amount is a float64, and the generators'        *)
(* arithmetic is float64 arithmetic: every product, sum and difference is  *)
(* rounded to the nearest double as the hardware rounds it.  A raw word w  *)
(* of 0 .. RawRange-1 stands for the sample w / RawRange of [0, 1).        *)
(*                                                                         *)
(* Random numbers.  A generator is a cycle of raw words and a position on  *)
(* it: a draw returns the word at the position and advances it, seeding    *)
(* jumps to the position the seed names, and a generator that was never    *)
(* seeded starts at a position taken from the operating system's entropy.  *)
(* Which words the cycle holds is left open: Init takes every cycle.       *)
(***************************************************************************)
EXTENDS Integers, Sequences, FiniteSets, TLC

VARIABLES
    cycle,           \* the raw words a generator returns, in order, cyclically
    entropy,         \* the state np.random took from the operating system at import
    npState,         \* np.random's process-wide state: a position on the cycle
    cpState,         \* cp.random's state: a position, or NotCreated
    device,          \* args.device
    n_rows,          \* args.n_rows
    cudf_installed,  \* whether `import cudf` succeeds
    pc,              \* the statement main (or the function it called) is at
    df,              \* the table of the running compute_* function
    gross_wages,     \* the generator's local gross_wages, before rounding
    now,             \* what time.time() returns
    start_time,      \* compute_*'s local start_time
    cpu_time,        \* main's cpu_time
    gpu_time,        \* main's gpu_time
    speedup,         \* main's speedup
    elapsed,         \* compute_*'s local elapsed
    result,          \* compute_gpu's local result: the sample brought to the host
    stdout,          \* what was printed, in order
    log,             \* the operations executed, with the clock at begin and end
    calls,           \* library use: what the functions called so far returned
    employee_ids     \* the Employee ID column built alone

vars == <<cycle, entropy, npState, cpState, device, n_rows, cudf_installed, pc, df,
          gross_wages, now, start_time, cpu_time, gpu_time, speedup, elapsed,
          result, stdout, log, calls, employee_ids>>

---------------------------------------------------------------------------
(* Bounds *)

MaxRows == 2

CycleLen == 3

RawRange == 29

WordCount == 2

WordStride == 12

MaxTick == 1

IdSmallRows == 110

IdLargeFrom == 990

IdLargeRows == 20

MaxApplications == 3

---------------------------------------------------------------------------
(* Program constants *)

Seed == 42

IdMinWidth == 3

HeadRows == 5

NotCreated == 0 - 1

first_names == <<"John", "Jane", "Alex", "Emily", "Michael", "Sarah", "David", "Laura">>

last_names == <<"Doe", "Smith", "Johnson", "Williams", "Brown", "Jones", "Davis", "Miller">>

job_titles == <<"Manager", "Clerk", "Engineer", "Analyst", "Technician",
                "Salesperson", "Administrator", "Supervisor">>

pay_periods == <<"01/01-01/15", "01/16-01/31", "02/01-02/15",
                 "02/16-02/28", "03/01-03/15", "03/16-03/31">>

Devices == {"cpu", "gpu", "both"}

---------------------------------------------------------------------------
(* Random number generation *)

\* The raw words the cycles of Init are made of: a sample of 0 .. RawRange-1.
Words == {(k * WordStride) % RawRange : k \in 0..(WordCount - 1)}

\* The cycles a generator may run through.
Cycles == [1..CycleLen -> Words]

\* The raw word a generator on the cycle c returns at position s as its k-th
\* next draw (k >= 1).
Word(c, s, k) == c[((s + k - 1) % CycleLen) + 1]

\* The state after n draws from state s.
Advance(s, n) == (s + n) % CycleLen

\* random.seed(seed): the state the seed names.
random_seed(seed) == seed % CycleLen

\* An array: the elementwise values of f, each computed once.
array(f) == f \o <<>>

\* random.choice(list, n) on the cycle c from state s: n elements of list, with
\* replacement.
choice(c, list, n, s) ==
    array([i \in 1..n |-> list[((Len(list) * Word(c, s, i)) \div RawRange) + 1]])

\* random.randint(lo, hi, n) on the cycle c from state s: n integers in lo .. hi-1.
randint(c, lo, hi, n, s) ==
    array([i \in 1..n |-> lo + ((hi - lo) * Word(c, s, i)) \div RawRange])

---------------------------------------------------------------------------
(* Wide natural numbers: Width limbs in base Base, the least significant   *)
(* first.  They hold the exact products and sums of two significands.      *)

LimbBits == 14

Width == 8

Base == 2 ^ LimbBits

\* The i-th limb of x, 0 beyond its limbs.
Limb(x, i) == IF i >= 1 /\ i <= Width THEN x[i] ELSE 0

\* the natural number n an integer holds
Big(n) ==
    array([i \in 1..Width |-> IF i <= 3 THEN (n \div (Base ^ (i - 1))) % Base ELSE 0])

\* the number x, which an integer can hold
Small(x) == x[1] + Base * x[2] + Base * Base * x[3]

BigZero == Big(0)

\* Whether adding the limbs of sum, each the sum of two limbs, carries into limb i.
CarryInto(sum, i) ==
    \E j \in 1..(i - 1) :
        sum[j] >= Base /\ \A k \in (j + 1)..(i - 1) : sum[k] = Base - 1

\* The number whose limbs, before the carries, are those of sum.
Carried(sum) ==
    array([i \in 1..Width |->
            (sum[i] + (IF CarryInto(sum, i) THEN 1 ELSE 0)) % Base])

\* x + y
BigAdd(x, y) == Carried(array([i \in 1..Width |-> x[i] + y[i]]))

\* Whether subtracting y from x borrows from limb i.
BorrowFrom(x, y, i) ==
    \E j \in 1..(i - 1) :
        x[j] < y[j] /\ \A k \in (j + 1)..(i - 1) : x[k] = y[k]

\* x - y for x >= y
BigSub(x, y) ==
    array([i \in 1..Width |->
            (x[i] - y[i] - (IF BorrowFrom(x, y, i) THEN 1 ELSE 0) + Base) % Base])

\* x < y
BigLess(x, y) ==
    \E i \in 1..Width : x[i] < y[i] /\ \A k \in (i + 1)..Width : x[k] = y[k]

\* The sum of the limb products of x and y that weigh Base^(k-1), for x and
\* y of at most four limbs (significands).
Column(x, y, k) ==
    x[1] * Limb(y, k) + x[2] * Limb(y, k - 1) + x[3] * Limb(y, k - 2)
    + x[4] * Limb(y, k - 3)

\* The number whose limbs, before the carries, are the column sums col.
SumOfColumns(col) ==
    BigAdd(BigAdd(array([i \in 1..Width |-> col[i] % Base]),
                  array([i \in 1..Width |->
                            IF i > 1 THEN (col[i - 1] \div Base) % Base ELSE 0])),
           array([i \in 1..Width |->
                    IF i > 2 THEN col[i - 2] \div (Base * Base) ELSE 0]))

\* x * y for x and y of at most four limbs
BigMul(x, y) == SumOfColumns(array([k \in 1..Width |-> Column(x, y, k)]))

\* the number of binary digits of a limb v
Bits(v) == Cardinality({k \in 0..(LimbBits - 1) : 2 ^ k <= v})

\* the index of the most significant limb of x # 0
TopLimb(x) == CHOOSE i \in 1..Width : x[i] # 0 /\ \A k \in (i + 1)..Width : x[k] = 0

\* the number of binary digits of x
BitLen(x) ==
    IF x = BigZero THEN 0 ELSE LimbBits * (TopLimb(x) - 1) + Bits(x[TopLimb(x)])

\* x * 2^k, for a product below Base^Width
ShiftLeft(x, k) ==
    array([i \in 1..Width |->
            (Limb(x, i - (k \div LimbBits)) % (2 ^ (LimbBits - (k % LimbBits))))
                * (2 ^ (k % LimbBits))
            + (Limb(x, i - (k \div LimbBits) - 1) \div (2 ^ (LimbBits - (k % LimbBits))))])

\* x \div 2^k
ShiftRight(x, k) ==
    array([i \in 1..Width |->
            (Limb(x, i + (k \div LimbBits)) \div (2 ^ (k % LimbBits)))
            + (Limb(x, i + (k \div LimbBits) + 1) % (2 ^ (k % LimbBits)))
                * (2 ^ (LimbBits - (k % LimbBits)))])

\* quot or quot + 1: quot + rest / (2 * half) rounded to the nearest natural
\* number, a tie to the even one
RoundedUp(quot, rest, half) ==
    IF BigLess(half, rest) \/ (rest = half /\ quot[1] % 2 = 1)
    THEN BigAdd(quot, Big(1))
    ELSE quot

\* x / 2^k rounded so, quot being x \div 2^k
NearestTo(x, k, quot) ==
    RoundedUp(quot, BigSub(x, ShiftLeft(quot, k)), ShiftLeft(Big(1), k - 1))

\* x / 2^k rounded to the nearest natural number, a tie to the even one (k > 0)
ShiftRightNearest(x, k) ==
    IF k > BitLen(x) THEN BigZero ELSE NearestTo(x, k, ShiftRight(x, k))

---------------------------------------------------------------------------
(* float64 arithmetic.  A double is (-1)^neg * m * 2^e with m of exactly   *)
(* MantissaBits binary digits, or 0; every operation gives the double       *)
(* nearest the exact result, a tie to the even one.  The amounts of the     *)
(* program are far from the subnormal numbers and from overflow.           *)

MantissaBits == 53

DoubleZero == [neg |-> FALSE, m |-> BigZero, e |-> 0]

\* (-1)^neg * quot * 2^e for a quot of MantissaBits digits, or one more when
\* the rounding carried into a new digit
Renormalised(neg, quot, e) ==
    IF BitLen(quot) > MantissaBits
    THEN [neg |-> neg, m |-> ShiftRight(quot, 1), e |-> e + 1]
    ELSE [neg |-> neg, m |-> quot, e |-> e]

\* The double nearest to (-1)^neg * n * 2^e, n # 0 having cut digits too many.
RoundedBy(neg, n, e, cut) ==
    IF cut <= 0
    THEN [neg |-> neg, m |-> ShiftLeft(n, 0 - cut), e |-> e + cut]
    ELSE Renormalised(neg, ShiftRightNearest(n, cut), e + cut)

\* The double nearest to (-1)^neg * n * 2^e.
RoundToDouble(neg, n, e) ==
    IF n = BigZero THEN DoubleZero ELSE RoundedBy(neg, n, e, BitLen(n) - MantissaBits)

\* float(k) for an integer k
FromInt(k) == RoundToDouble(k < 0, Big(IF k < 0 THEN 0 - k ELSE k), 0)

\* The quotient p / q to five limbs after the point, by long division from the
\* remainder r of p by q, doubled, and odd when digits remain beyond.
Quotient(whole, r, q) ==
    LET r1 == (r * Base) % q
        r2 == (r1 * Base) % q
        r3 == (r2 * Base) % q
        r4 == (r3 * Base) % q
    IN  <<2 * (((r4 * Base) \div q) % (Base \div 2))
            + (IF (r4 * Base) % q = 0 THEN 0 ELSE 1),
          2 * (((r3 * Base) \div q) % (Base \div 2)) + (((r4 * Base) \div q) \div (Base \div 2)),
          2 * (((r2 * Base) \div q) % (Base \div 2)) + (((r3 * Base) \div q) \div (Base \div 2)),
          2 * (((r1 * Base) \div q) % (Base \div 2)) + (((r2 * Base) \div q) \div (Base \div 2)),
          2 * (((r * Base) \div q) % (Base \div 2)) + (((r1 * Base) \div q) \div (Base \div 2)),
          2 * (whole[1] % (Base \div 2)) + (((r * Base) \div q) \div (Base \div 2)),
          2 * (whole[2] % (Base \div 2)) + (whole[1] \div (Base \div 2)),
          2 * (whole[3] % (Base \div 2)) + (whole[2] \div (Base \div 2))>>

\* The double nearest to p / q for integers p >= 0 and 0 < q <= Base: the
\* value of a decimal literal, and of the division of two such doubles.
Double(p, q) ==
    RoundToDouble(FALSE, Quotient(Big(p \div q), p % q, q), 0 - (5 * LimbBits) - 1)

\* x * y
DMul(x, y) == RoundToDouble(x.neg # y.neg, BigMul(x.m, y.m), x.e + y.e)

\* (-1)^nx * a * 2^e + (-1)^ny * b * 2^e, rounded
SignedSum(nx, ny, a, b, e) ==
    RoundToDouble(IF nx = ny \/ BigLess(b, a) THEN nx ELSE ny,
                  IF nx = ny THEN BigAdd(a, b)
                  ELSE IF BigLess(b, a) THEN BigSub(a, b)
                  ELSE BigSub(b, a),
                  e)

\* Whether y is too small to reach the rounding of x + y.
Far(x, y) == x.e - y.e > MantissaBits + 2

\* The sum of the doubles x and y, neither 0, x with the larger exponent: the
\* exact sum, rounded.  Of a y that is Far only the presence counts.
AddAligned(x, y) ==
    SignedSum(x.neg, y.neg,
              ShiftLeft(x.m, IF Far(x, y) THEN 3 ELSE x.e - y.e),
              IF Far(x, y) THEN Big(1) ELSE y.m,
              IF Far(x, y) THEN x.e - 3 ELSE y.e)

\* x + y
DAdd(x, y) ==
    IF x.m = BigZero THEN (IF y.m = BigZero THEN DoubleZero ELSE y)
    ELSE IF y.m = BigZero THEN x
    ELSE AddAligned(IF x.e >= y.e THEN x ELSE y, IF x.e >= y.e THEN y ELSE x)

\* x - y
DSub(x, y) == DAdd(x, [y EXCEPT !.neg = ~y.neg])

\* (-1)^neg * n, which an integer can hold
Signed(neg, n) == IF neg THEN 0 - Small(n) ELSE Small(n)

\* np.rint(x), as an integer: the nearest integer, a tie to the even one
rint(x) ==
    Signed(x.neg, IF x.e >= 0 THEN ShiftLeft(x.m, x.e)
                  ELSE ShiftRightNearest(x.m, 0 - x.e))

\* 100.0
Hundred == FromInt(100)

\* np.round(x, 2), in cents: rint(x * 100.0); the stored value is that / 100.0
Round2(x) == rint(DMul(x, Hundred))

\* The double a stored monetary value of c cents is: c / 100.0.
Stored(c) == Double(c, 100)

---------------------------------------------------------------------------
(* The columns the generators derive *)

\* The literals of the generators, as the doubles they are.
OvertimeFactor == Double(3, 2)

SocialSecurityRate == Double(62, 1000)

MedicareRate == Double(145, 10000)

\* The ranges of the uniform draws.
BaseRateRange == [lo |-> FromInt(15), hi |-> FromInt(50)]

FederalRateRange == [lo |-> Double(10, 100), hi |-> Double(15, 100)]

StateRateRange == [lo |-> Double(3, 100), hi |-> Double(6, 100)]

HealthInsuranceRange == [lo |-> FromInt(50), hi |-> FromInt(100)]

RetirementRange == [lo |-> FromInt(30), hi |-> FromInt(70)]

OtherDeductionsRange == [lo |-> FromInt(10), hi |-> FromInt(30)]

\* random_sample(): the double in [0, 1) the raw word w stands for
random_sample(w) == Double(w, RawRange)

\* One value of random.uniform(lo, hi): lo + (hi - lo) * random_sample()
uniform_value(lo, hi, w) == DAdd(lo, DMul(DSub(hi, lo), random_sample(w)))

\* random.uniform(lo, hi, n) on the cycle c from state s: n doubles in [lo, hi)
uniform(c, lo, hi, n, s) ==
    array([i \in 1..n |-> uniform_value(lo, hi, Word(c, s, i))])

\* A variant of GrossWages that pays the overtime hours only.
GrossWagesOvertimeOnly(regular, overtime, rate) ==
    DMul(FromInt(overtime), DMul(OvertimeFactor, rate))

\* regular_hours * base_rates + overtime_hours * (1.5 * base_rates)
GrossWages(regular, overtime, rate) ==
    DAdd(DMul(FromInt(regular), rate),
         DMul(FromInt(overtime), DMul(OvertimeFactor, rate)))

\* gross_wages * federal_rates
FederalTax(gross, rate) == DMul(gross, rate)

\* gross_wages * state_rates
StateTax(gross, rate) == DMul(gross, rate)

\* A variant of SocialSecurity that takes 6.2% of the gross already rounded to
\* the cent.
SocialSecurityOfRoundedGross(gross) == DMul(Stored(Round2(gross)), SocialSecurityRate)

\* gross_wages * 0.062
SocialSecurity(gross) == DMul(gross, SocialSecurityRate)

\* gross_wages * 0.0145
Medicare(gross) == DMul(gross, MedicareRate)

\* federal_tax + state_tax + social_security + medicare + health_insurance
\* + retirement + other_deductions
TotalDeductions(federal, state, social, medi, health, retire, other) ==
    DAdd(DAdd(DAdd(DAdd(DAdd(DAdd(federal, state), social), medi), health), retire), other)

\* gross_wages - total_deductions
NetPay(gross, total) == DSub(gross, total)

---------------------------------------------------------------------------
(* Employee IDs *)

DigitChars == <<"0", "1", "2", "3", "4", "5", "6", "7", "8", "9">>

RECURSIVE Str(_)
\* str(n) for n >= 0
Str(n) == IF n < 10 THEN DigitChars[n + 1]
          ELSE Str(n \div 10) \o DigitChars[(n % 10) + 1]

RECURSIVE Zeros(_)
Zeros(k) == IF k <= 0 THEN "" ELSE "0" \o Zeros(k - 1)

\* f"{i:0{width}d}": str(i), left-padded with zeros to at least width
FormatId(i, width) == Zeros(width - Len(Str(i))) \o Str(i)

\* A variant of IdWidth that always pads to the minimum width.
IdWidthFixed(n) == IdMinWidth

\* max(3, len(str(n_rows)))
IdWidth(n) == IF Len(Str(n)) > IdMinWidth THEN Len(Str(n)) ELSE IdMinWidth

\* [f"{i:0{id_width}d}" for i in range(1, n_rows + 1)]
EmployeeIdsCpu(n) == [i \in 1..n |-> FormatId(i, IdWidth(n))]

\* [f"{int(i):0{id_width}d}" for i in cp.asnumpy(cp.arange(1, n_rows + 1))]
EmployeeIdsGpu(n) ==
    LET employee_ids_arr == [k \in 1..n |-> k]
    IN  [i \in 1..n |-> FormatId(employee_ids_arr[i], IdWidth(n))]

---------------------------------------------------------------------------
(* The generators *)

\* The numeric fields of one row, the monetary ones in cents.
Amounts(regular, overtime, gross, federal, state, social, medi, health, retire, other, net) ==
    [RegularHours |-> regular, OvertimeHours |-> overtime,
     GrossWages |-> gross, FederalTax |-> federal, StateTax |-> state,
     SocialSecurity |-> social, Medicare |-> medi, HealthInsurance |-> health,
     Retirement |-> retire, OtherDeductions |-> other, NetPay |-> net]

\* One row of the table: its strings and its numeric fields a.
Row(name, id, job, period, a) ==
    [EmployeeName |-> name, EmployeeID |-> id, JobTitle |-> job,
     PayPeriod |-> period, RegularHours |-> a.RegularHours,
     OvertimeHours |-> a.OvertimeHours, GrossWages |-> a.GrossWages,
     FederalTax |-> a.FederalTax, StateTax |-> a.StateTax,
     SocialSecurity |-> a.SocialSecurity, Medicare |-> a.Medicare,
     HealthInsurance |-> a.HealthInsurance, Retirement |-> a.Retirement,
     OtherDeductions |-> a.OtherDeductions, NetPay |-> a.NetPay]

\* A variant of CpuEntryState without the seeding: the generator draws from
\* np.random where the caller left it.
CpuEntryStateUnseeded(np) == np

\* np.random.seed(42) on entry of the CPU generator: np.random's state after it.
CpuEntryState(np) == random_seed(Seed)

\* cp.random.seed(42) on entry of the accelerated generator seeds CuPy's
\* generator only: np.random's state is the one the caller left.
GpuEntryState(np) == np

\* np.random's state when simulate_complex_payroll_data_cpu(n) returns: four
\* choices, two randint and six uniform of n draws each after the seeding.
NpAfterCpu(n, np) == Advance(CpuEntryState(np), 12 * n)

\* np.random's state when simulate_complex_payroll_data_gpu(n) returns: the
\* four choices of n draws each.
NpAfterGpu(n, np) == Advance(GpuEntryState(np), 4 * n)

\* cp.random's state when simulate_complex_payroll_data_gpu(n) returns: the
\* seeding, then two randint and six uniform of n draws each.
CpAfterGpu(n) == Advance(random_seed(Seed), 8 * n)

\* [f"{first} {last}" for first, last in zip(firsts, lasts)]
Names(firsts, lasts) ==
    array([i \in 1..Len(firsts) |-> firsts[i] \o " " \o lasts[i]])

\* The numeric columns a generator draws on the cycle c, its random generator
\* being in state t: two randint and six uniform of n draws each, in the order
\* of both generators.
NumericDraws(c, n, t) ==
    [n |-> n,
     regular_hours |-> randint(c, 70, 81, n, t),
     overtime_hours |-> randint(c, 0, 11, n, Advance(t, n)),
     base_rates |-> uniform(c, BaseRateRange.lo, BaseRateRange.hi, n, Advance(t, 2 * n)),
     federal_rates |-> uniform(c, FederalRateRange.lo, FederalRateRange.hi, n, Advance(t, 3 * n)),
     state_rates |-> uniform(c, StateRateRange.lo, StateRateRange.hi, n, Advance(t, 4 * n)),
     health_insurance |-> uniform(c, HealthInsuranceRange.lo, HealthInsuranceRange.hi, n, Advance(t, 5 * n)),
     retirement |-> uniform(c, RetirementRange.lo, RetirementRange.hi, n, Advance(t, 6 * n)),
     other_deductions |-> uniform(c, OtherDeductionsRange.lo, OtherDeductionsRange.hi, n, Advance(t, 7 * n))]

\* gross_wages, from the drawn columns d
GrossWagesColumn(d) ==
    array([i \in 1..d.n |->
            GrossWages(d.regular_hours[i], d.overtime_hours[i], d.base_rates[i])])

\* federal_tax, state_tax, social_security and medicare, from the gross wages
TaxColumns(d, gross) ==
    [federal_tax |-> array([i \in 1..d.n |-> FederalTax(gross[i], d.federal_rates[i])]),
     state_tax |-> array([i \in 1..d.n |-> StateTax(gross[i], d.state_rates[i])]),
     social_security |-> array([i \in 1..d.n |-> SocialSecurity(gross[i])]),
     medicare |-> array([i \in 1..d.n |-> Medicare(gross[i])])]

\* net_pay = gross_wages - total_deductions
NetPayColumn(d, gross, tax) ==
    array([i \in 1..d.n |->
            NetPay(gross[i],
                   TotalDeductions(tax.federal_tax[i], tax.state_tax[i],
                                   tax.social_security[i], tax.medicare[i],
                                   d.health_insurance[i], d.retirement[i],
                                   d.other_deductions[i]))])

\* The numeric columns of the DataFrame, the monetary ones rounded to the cent
\* by np.round(x, 2) / cp.round(x, 2); with them the local gross_wages, unrounded.
RoundedColumns(d, gross, tax, net) ==
    [amounts |-> array([i \in 1..d.n |->
                    Amounts(d.regular_hours[i], d.overtime_hours[i],
                            Round2(gross[i]), Round2(tax.federal_tax[i]),
                            Round2(tax.state_tax[i]), Round2(tax.social_security[i]),
                            Round2(tax.medicare[i]), Round2(d.health_insurance[i]),
                            Round2(d.retirement[i]), Round2(d.other_deductions[i]),
                            Round2(net[i]))]),
     gross_wages |-> gross]

\* The numeric columns from the drawn columns d, the taxes being tax.
PayrollWithTaxes(d, gross, tax) ==
    RoundedColumns(d, gross, tax, NetPayColumn(d, gross, tax))

\* The numeric columns from the drawn columns d, the gross wages being gross.
PayrollWithGross(d, gross) == PayrollWithTaxes(d, gross, TaxColumns(d, gross))

\* The numeric columns both generators compute from the columns they drew.
Payroll(d) == PayrollWithGross(d, GrossWagesColumn(d))

\* Payroll(NumericDraws(c, n, t)) for every cycle, row count and state, each
\* computed once.
PayrollOf ==
    [c \in Cycles, n \in 1..MaxRows, t \in 0..(CycleLen - 1) |->
        Payroll(NumericDraws(c, n, t))] @@ <<>>

\* pd.DataFrame({...}) / cudf.DataFrame({...}): the rows of the string columns
\* and the numeric columns.
DataFrame(names, ids, jobs, periods, amounts) ==
    array([i \in 1..Len(amounts) |->
            Row(names[i], ids[i], jobs[i], periods[i], amounts[i])])

\* What the CPU generator leaves, having seeded np.random to state s and
\* computed the numeric columns p: the table, gross_wages, np.random's state.
CpuResult(n, s, p, np) ==
    [df |-> DataFrame(Names(choice(cycle, first_names, n, s),
                            choice(cycle, last_names, n, Advance(s, n))),
                      array(EmployeeIdsCpu(n)),
                      choice(cycle, job_titles, n, Advance(s, 2 * n)),
                      choice(cycle, pay_periods, n, Advance(s, 3 * n)),
                      p.amounts),
     gross_wages |-> p.gross_wages,
     np |-> np]

\* What the accelerated generator leaves, np.random being in state s on entry
\* and p the numeric columns: the table, gross_wages, both generators' states.
GpuResult(n, s, p, np, cp) ==
    [df |-> DataFrame(Names(choice(cycle, first_names, n, s),
                            choice(cycle, last_names, n, Advance(s, n))),
                      array(EmployeeIdsGpu(n)),
                      choice(cycle, job_titles, n, Advance(s, 2 * n)),
                      choice(cycle, pay_periods, n, Advance(s, 3 * n)),
                      p.amounts),
     gross_wages |-> p.gross_wages,
     np |-> np,
     cp |-> cp]

\* simulate_complex_payroll_data_cpu(n_rows), called with np.random in state np:
\* seeds np.random, draws the four string columns from it and then the
\* numeric ones.
simulate_complex_payroll_data_cpu(n, np) ==
    CpuResult(n, CpuEntryState(np),
              PayrollOf[cycle, n, Advance(CpuEntryState(np), 4 * n)],
              NpAfterCpu(n, np))

\* simulate_complex_payroll_data_gpu(n_rows), called with np.random in state np:
\* the string columns are drawn from np.random as it stands, the numeric ones
\* from CuPy's generator, seeded on entry.
simulate_complex_payroll_data_gpu(n, np) ==
    GpuResult(n, GpuEntryState(np), PayrollOf[cycle, n, random_seed(Seed)],
              NpAfterGpu(n, np), CpAfterGpu(n))

\* df["Net Pay"] = df["Gross Wages"] - (df["Federal Tax"] + ... + df["Other Deductions"])
\* on the stored values, to the cent.  The stored values are whole cents below
\* 2^13, so the float64 difference lies within 2^-36 of the exact one and has
\* the cents of the exact one.
RecomputedNetPay(row) ==
    row.GrossWages - (row.FederalTax + row.StateTax + row.SocialSecurity
                      + row.Medicare + row.HealthInsurance + row.Retirement
                      + row.OtherDeductions)

\* A variant of compute_net_pay_cpu that returns the table as passed.
ComputeNetPaySkipped(t) == t

\* A variant of compute_net_pay_cpu that subtracts the deductions from the
\* Net Pay column in place.
ComputeNetPayInPlace(t) ==
    [i \in 1..Len(t) |->
        [t[i] EXCEPT !.NetPay = t[i].NetPay - (t[i].GrossWages - RecomputedNetPay(t[i]))]]

\* compute_net_pay_cpu(df)
compute_net_pay_cpu(t) ==
    [i \in 1..Len(t) |-> [t[i] EXCEPT !.NetPay = RecomputedNetPay(t[i])]]

\* compute_gpu's recomputation of df["Net Pay"]
compute_net_pay_gpu(t) ==
    [i \in 1..Len(t) |-> [t[i] EXCEPT !.NetPay = RecomputedNetPay(t[i])]]

\* df.head()
head(t) == SubSeq(t, 1, IF Len(t) < HeadRows THEN Len(t) ELSE HeadRows)

---------------------------------------------------------------------------
(* Values of main's variables *)

Float(x) == [kind |-> "float", val |-> x]

\* Python's None
None == [kind |-> "None", val |-> 0]

\* a name no assignment has bound yet: reading it raises NameError
Unbound == [kind |-> "unbound", val |-> 0]

NoSpeedup == [kind |-> "unbound", num |-> 0, den |-> 1]

\* float('inf')
Infinity == [kind |-> "inf", num |-> 0, den |-> 1]

\* a / b on floats: the quotient num / den, or ZeroDivisionError
Divide(a, b) ==
    IF b = 0 THEN [kind |-> "ZeroDivisionError", num |-> a, den |-> b]
    ELSE [kind |-> "float", num |-> a, den |-> b]

\* A variant of Speedup without the guard on gpu_time.
SpeedupUnguarded(cpu, gpu) == Divide(cpu, gpu)

\* cpu_time / gpu_time if gpu_time > 0 else float('inf')
Speedup(cpu, gpu) == IF gpu > 0 THEN Divide(cpu, gpu) ELSE Infinity

\* A variant of SummaryCondition without the test for None.
SummaryConditionWithoutNoneTest ==
    IF device # "both" THEN "no"
    ELSE IF gpu_time.kind = "unbound" THEN "NameError"
    ELSE "yes"

\* args.device == 'both' and gpu_time is not None, evaluated left to right
SummaryCondition ==
    IF device # "both" THEN "no"
    ELSE IF gpu_time.kind = "unbound" THEN "NameError"
    ELSE IF gpu_time.kind = "None" THEN "no"
    ELSE "yes"

\* What an operation that took the clock from t0 to t1 adds to the log.
Logged(op, t0, t1) == Append(log, [op |-> op, t0 |-> t0, t1 |-> t1])

Ticks == 0..MaxTick

\* A call of one of the module's functions: its name, n_rows, np.random's
\* state when it was called, the table passed and the table returned.
Call(fn, n, np, arg, ret) == [fn |-> fn, n |-> n, np |-> np, arg |-> arg, ret |-> ret]

\* No call yet.  last: the last call; generated: the table the last generator
\* call returned; applications: how often compute_net_pay_cpu was applied to it
\* since; first_cpu: the table the first call of the CPU generator returned;
\* repeated: whether the CPU generator was called again after that.
NoCalls ==
    [last |-> Call("none", 0, 0, <<>>, <<>>),
     generated |-> <<>>,
     applications |-> 0,
     first_cpu |-> <<>>,
     repeated |-> FALSE]

\* The row counts the Employee ID column is built for.
IdRowCounts == (1..IdSmallRows) \cup (IdLargeFrom..(IdLargeFrom + IdLargeRows))

---------------------------------------------------------------------------
(* main and the two runs *)

mainVars == <<cycle, entropy, device, n_rows, cudf_installed, calls, employee_ids>>

Init ==
    /\ cycle \in Cycles
    /\ entropy \in 0..(CycleLen - 1)
    /\ npState = entropy
    /\ cpState = NotCreated
    /\ device \in Devices
    /\ n_rows \in 1..MaxRows
    /\ cudf_installed \in BOOLEAN
    /\ pc = "main_cpu"
    /\ df = <<>>
    /\ gross_wages = <<>>
    /\ now = 0
    /\ start_time = 0
    /\ cpu_time = Unbound
    /\ gpu_time = Unbound
    /\ speedup = NoSpeedup
    /\ elapsed = 0
    /\ result = <<>>
    /\ stdout = <<>>
    /\ log = <<>>
    /\ calls = NoCalls
    /\ employee_ids = <<>>

\* main, line 246 taken: compute_cpu is entered and prints its banner
MainCallCpu ==
    /\ pc = "main_cpu"
    /\ device \in {"cpu", "both"}
    /\ stdout' = Append(stdout, "cpu:running")
    /\ pc' = "cpu_generate"
    /\ UNCHANGED <<mainVars, npState, cpState, df, gross_wages, now, start_time,
                   cpu_time, gpu_time, speedup, elapsed, result, log>>

\* main, line 246 not taken
MainSkipCpu ==
    /\ pc = "main_cpu"
    /\ device \notin {"cpu", "both"}
    /\ pc' = "main_gpu"
    /\ UNCHANGED <<mainVars, npState, cpState, df, gross_wages, now, start_time,
                   cpu_time, gpu_time, speedup, elapsed, result, stdout, log>>

\* compute_cpu: df = simulate_complex_payroll_data_cpu(n_rows)
CpuGenerate ==
    /\ pc = "cpu_generate"
    /\ \E r \in {simulate_complex_payroll_data_cpu(n_rows, npState)} :
        \E d \in Ticks :
            /\ df' = r.df
            /\ gross_wages' = r.gross_wages
            /\ npState' = r.np
            /\ now' = now + d
            /\ log' = Logged("cpu:generate", now, now + d)
    /\ pc' = "cpu_start"
    /\ UNCHANGED <<mainVars, cpState, start_time, cpu_time, gpu_time, speedup,
                   elapsed, result, stdout>>

\* compute_cpu: start_time = time.time()
CpuStartTimer ==
    /\ pc = "cpu_start"
    /\ start_time' = now
    /\ log' = Logged("cpu:start", now, now)
    /\ pc' = "cpu_net_pay"
    /\ UNCHANGED <<mainVars, npState, cpState, df, gross_wages, now, cpu_time,
                   gpu_time, speedup, elapsed, result, stdout>>

\* compute_cpu: df = compute_net_pay_cpu(df)
CpuNetPay ==
    /\ pc = "cpu_net_pay"
    /\ \E d \in Ticks :
        /\ df' = compute_net_pay_cpu(df)
        /\ now' = now + d
        /\ log' = Logged("cpu:net_pay", now, now + d)
    /\ pc' = "cpu_stop"
    /\ UNCHANGED <<mainVars, npState, cpState, gross_wages, start_time, cpu_time,
                   gpu_time, speedup, elapsed, result, stdout>>

\* compute_cpu: elapsed = time.time() - start_time
CpuStopTimer ==
    /\ pc = "cpu_stop"
    /\ elapsed' = now - start_time
    /\ log' = Logged("cpu:stop", now, now)
    /\ pc' = "cpu_report"
    /\ UNCHANGED <<mainVars, npState, cpState, df, gross_wages, now, start_time,
                   cpu_time, gpu_time, speedup, result, stdout>>

\* compute_cpu: the two prints and return elapsed; main binds cpu_time
CpuReport ==
    /\ pc = "cpu_report"
    /\ stdout' = stdout \o <<"cpu:time", "cpu:sample">>
    /\ cpu_time' = Float(elapsed)
    /\ pc' = "main_gpu"
    /\ UNCHANGED <<mainVars, npState, cpState, df, gross_wages, now, start_time,
                   gpu_time, speedup, elapsed, result, log>>

\* main, line 248 not taken
MainSkipGpu ==
    /\ pc = "main_gpu"
    /\ device \notin {"gpu", "both"}
    /\ pc' = "main_summary"
    /\ UNCHANGED <<mainVars, npState, cpState, df, gross_wages, now, start_time,
                   cpu_time, gpu_time, speedup, elapsed, result, stdout, log>>

\* compute_gpu: import cudf raises ImportError; the message, return None
GpuImportError ==
    /\ pc = "main_gpu"
    /\ device \in {"gpu", "both"}
    /\ ~cudf_installed
    /\ stdout' = Append(stdout, "gpu:error")
    /\ gpu_time' = None
    /\ pc' = "main_summary"
    /\ UNCHANGED <<mainVars, npState, cpState, df, gross_wages, now, start_time,
                   cpu_time, speedup, elapsed, result, log>>

\* compute_gpu: import cudf succeeds
GpuImportOk ==
    /\ pc = "main_gpu"
    /\ device \in {"gpu", "both"}
    /\ cudf_installed
    /\ pc' = "gpu_start"
    /\ UNCHANGED <<mainVars, npState, cpState, df, gross_wages, now, start_time,
                   cpu_time, gpu_time, speedup, elapsed, result, stdout, log>>

\* compute_gpu: the banner and start_time = time.time()
GpuStartTimer ==
    /\ pc = "gpu_start"
    /\ stdout' = Append(stdout, "gpu:running")
    /\ start_time' = now
    /\ log' = Logged("gpu:start", now, now)
    /\ pc' = "gpu_generate"
    /\ UNCHANGED <<mainVars, npState, cpState, df, gross_wages, now, cpu_time,
                   gpu_time, speedup, elapsed, result>>

\* A variant of GpuGenerate that starts the timer after the generation, as
\* compute_cpu does.
GpuGenerateThenStartTimer ==
    /\ pc = "gpu_generate"
    /\ \E r \in {simulate_complex_payroll_data_gpu(n_rows, npState)} :
        \E d \in Ticks :
            /\ df' = r.df
            /\ gross_wages' = r.gross_wages
            /\ npState' = r.np
            /\ cpState' = r.cp
            /\ now' = now + d
            /\ start_time' = now + d
            /\ log' = Logged("gpu:generate", now, now + d)
    /\ pc' = "gpu_net_pay"
    /\ UNCHANGED <<mainVars, cpu_time, gpu_time, speedup, elapsed, result, stdout>>

\* compute_gpu: df = simulate_complex_payroll_data_gpu(n_rows)
GpuGenerate ==
    /\ pc = "gpu_generate"
    /\ \E r \in {simulate_complex_payroll_data_gpu(n_rows, npState)} :
        \E d \in Ticks :
            /\ df' = r.df
            /\ gross_wages' = r.gross_wages
            /\ npState' = r.np
            /\ cpState' = r.cp
            /\ now' = now + d
            /\ log' = Logged("gpu:generate", now, now + d)
    /\ pc' = "gpu_net_pay"
    /\ UNCHANGED <<mainVars, start_time, cpu_time, gpu_time, speedup, elapsed,
                   result, stdout>>

\* compute_gpu: the recomputation of df["Net Pay"]
GpuNetPay ==
    /\ pc = "gpu_net_pay"
    /\ \E d \in Ticks :
        /\ df' = compute_net_pay_gpu(df)
        /\ now' = now + d
        /\ log' = Logged("gpu:net_pay", now, now + d)
    /\ pc' = "gpu_head"
    /\ UNCHANGED <<mainVars, npState, cpState, gross_wages, start_time, cpu_time,
                   gpu_time, speedup, elapsed, result, stdout>>

\* compute_gpu: result = df.head().to_pandas()
GpuHead ==
    /\ pc = "gpu_head"
    /\ \E d \in Ticks :
        /\ result' = head(df)
        /\ now' = now + d
        /\ log' = Logged("gpu:head", now, now + d)
    /\ pc' = "gpu_stop"
    /\ UNCHANGED <<mainVars, npState, cpState, df, gross_wages, start_time,
                   cpu_time, gpu_time, speedup, elapsed, stdout>>

\* compute_gpu: elapsed = time.time() - start_time
GpuStopTimer ==
    /\ pc = "gpu_stop"
    /\ elapsed' = now - start_time
    /\ log' = Logged("gpu:stop", now, now)
    /\ pc' = "gpu_report"
    /\ UNCHANGED <<mainVars, npState, cpState, df, gross_wages, now, start_time,
                   cpu_time, gpu_time, speedup, result, stdout>>

\* compute_gpu: the two prints and return elapsed; main binds gpu_time
GpuReport ==
    /\ pc = "gpu_report"
    /\ stdout' = stdout \o <<"gpu:time", "gpu:sample">>
    /\ gpu_time' = Float(elapsed)
    /\ pc' = "main_summary"
    /\ UNCHANGED <<mainVars, npState, cpState, df, gross_wages, now, start_time,
                   cpu_time, speedup, elapsed, result, log>>

\* main, lines 251-256: the summary, and the end of main.  Formatting a name
\* that was never bound raises NameError, formatting None with .4f TypeError.
MainSummary ==
    /\ pc = "main_summary"
    /\ LET c == SummaryCondition
           s == Speedup(cpu_time.val, gpu_time.val)
       IN  IF c = "no"
             THEN pc' = "done" /\ UNCHANGED <<speedup, stdout>>
           ELSE IF c = "NameError"
             THEN pc' = "NameError" /\ UNCHANGED <<speedup, stdout>>
           ELSE IF cpu_time.kind # "float"
             THEN /\ pc' = (IF cpu_time.kind = "unbound" THEN "NameError" ELSE "TypeError")
                  /\ stdout' = Append(stdout, "summary")
                  /\ UNCHANGED speedup
           ELSE IF gpu_time.kind # "float"
             THEN /\ pc' = (IF gpu_time.kind = "unbound" THEN "NameError" ELSE "TypeError")
                  /\ stdout' = stdout \o <<"summary", "summary:cpu">>
                  /\ UNCHANGED speedup
           ELSE IF s.kind = "ZeroDivisionError"
             THEN /\ pc' = "ZeroDivisionError"
                  /\ stdout' = stdout \o <<"summary", "summary:cpu", "summary:gpu">>
                  /\ UNCHANGED speedup
           ELSE /\ pc' = "done"
                /\ speedup' = s
                /\ stdout' = stdout \o <<"summary", "summary:cpu", "summary:gpu",
                                         "summary:speedup">>
    /\ UNCHANGED <<mainVars, npState, cpState, df, gross_wages, now, start_time,
                   cpu_time, gpu_time, elapsed, result, log>>

Next ==
    \/ MainCallCpu
    \/ MainSkipCpu
    \/ CpuGenerate
    \/ CpuStartTimer
    \/ CpuNetPay
    \/ CpuStopTimer
    \/ CpuReport
    \/ MainSkipGpu
    \/ GpuImportError
    \/ GpuImportOk
    \/ GpuStartTimer
    \/ GpuGenerate
    \/ GpuNetPay
    \/ GpuHead
    \/ GpuStopTimer
    \/ GpuReport
    \/ MainSummary

Spec == Init /\ [][Next]_vars

---------------------------------------------------------------------------
(* The module used as a library: its functions called in any order *)

idle == <<device, n_rows, cudf_installed, pc, now, start_time, cpu_time, gpu_time,
          speedup, elapsed, result, stdout, log, employee_ids>>

InitApi ==
    /\ cycle \in Cycles
    /\ entropy \in 0..(CycleLen - 1)
    /\ npState = entropy
    /\ cpState = NotCreated
    /\ device = "cpu"
    /\ n_rows \in 1..MaxRows
    /\ cudf_installed = TRUE
    /\ pc = "api"
    /\ df = <<>>
    /\ gross_wages = <<>>
    /\ now = 0
    /\ start_time = 0
    /\ cpu_time = Unbound
    /\ gpu_time = Unbound
    /\ speedup = NoSpeedup
    /\ elapsed = 0
    /\ result = <<>>
    /\ stdout = <<>>
    /\ log = <<>>
    /\ calls = NoCalls
    /\ employee_ids = <<>>

\* df = simulate_complex_payroll_data_cpu(n_rows)
ApiSimulateCpu ==
    /\ pc = "api"
    /\ \E r \in {simulate_complex_payroll_data_cpu(n_rows, npState)} :
        /\ df' = r.df
        /\ gross_wages' = r.gross_wages
        /\ npState' = r.np
        /\ calls' = [last |-> Call("cpu", n_rows, npState, <<>>, r.df),
                     generated |-> r.df,
                     applications |-> 0,
                     first_cpu |-> IF calls.first_cpu = <<>> THEN r.df
                                   ELSE calls.first_cpu,
                     repeated |-> calls.first_cpu # <<>>]
    /\ UNCHANGED <<cycle, entropy, cpState, idle>>

\* df = simulate_complex_payroll_data_gpu(n_rows)
ApiSimulateGpu ==
    /\ pc = "api"
    /\ \E r \in {simulate_complex_payroll_data_gpu(n_rows, npState)} :
        /\ df' = r.df
        /\ gross_wages' = r.gross_wages
        /\ npState' = r.np
        /\ cpState' = r.cp
        /\ calls' = [calls EXCEPT !.last = Call("gpu", n_rows, npState, <<>>, r.df),
                                  !.generated = r.df,
                                  !.applications = 0]
    /\ UNCHANGED <<cycle, entropy, idle>>

\* df = compute_net_pay_cpu(df)
ApiComputeNetPay ==
    /\ pc = "api"
    /\ df # <<>>
    /\ calls.applications < MaxApplications
    /\ \E t \in {compute_net_pay_cpu(df)} :
        /\ df' = t
        /\ calls' = [calls EXCEPT !.last = Call("net_pay", Len(df), npState, df, t),
                                  !.applications = @ + 1]
    /\ UNCHANGED <<cycle, entropy, npState, cpState, gross_wages, idle>>

NextApi ==
    \/ ApiSimulateCpu
    \/ ApiSimulateGpu
    \/ ApiComputeNetPay

SpecApi == InitApi /\ [][NextApi]_vars

---------------------------------------------------------------------------
(* The Employee ID column, built for large row counts too *)

InitIds ==
    /\ cycle = [i \in 1..CycleLen |-> 0]
    /\ entropy = 0
    /\ npState = 0
    /\ cpState = NotCreated
    /\ device = "both"
    /\ n_rows \in IdRowCounts
    /\ cudf_installed = TRUE
    /\ pc = "ids"
    /\ df = <<>>
    /\ gross_wages = <<>>
    /\ now = 0
    /\ start_time = 0
    /\ cpu_time = Unbound
    /\ gpu_time = Unbound
    /\ speedup = NoSpeedup
    /\ elapsed = 0
    /\ result = <<>>
    /\ stdout = <<>>
    /\ log = <<>>
    /\ calls = NoCalls
    /\ employee_ids = <<>>

\* simulate_complex_payroll_data_cpu(n_rows): its Employee ID column and what
\* it does to np.random
IdsCpu ==
    /\ pc \in {"ids", "ids_gpu"}
    /\ employee_ids' = array(EmployeeIdsCpu(n_rows))
    /\ npState' = NpAfterCpu(n_rows, npState)
    /\ pc' = "ids_cpu"
    /\ UNCHANGED <<cycle, entropy, cpState, device, n_rows, cudf_installed,
                   df, gross_wages, now, start_time, cpu_time, gpu_time, speedup,
                   elapsed, result, stdout, log, calls>>

\* simulate_complex_payroll_data_gpu(n_rows): its Employee ID column and what
\* it does to np.random and cp.random
IdsGpu ==
    /\ pc \in {"ids", "ids_cpu"}
    /\ employee_ids' = array(EmployeeIdsGpu(n_rows))
    /\ npState' = NpAfterGpu(n_rows, npState)
    /\ cpState' = CpAfterGpu(n_rows)
    /\ pc' = "ids_gpu"
    /\ UNCHANGED <<cycle, entropy, device, n_rows, cudf_installed,
                   df, gross_wages, now, start_time, cpu_time, gpu_time, speedup,
                   elapsed, result, stdout, log, calls>>

NextIds ==
    \/ IdsCpu
    \/ IdsGpu

SpecIds == InitIds /\ [][NextIds]_vars

---------------------------------------------------------------------------
(* Reading the log and the output *)

Positions(op) == {k \in 1..Len(log) : log[k].op = op}

Has(op) == Positions(op) # {}

Idx(op) == CHOOSE k \in Positions(op) : TRUE

Dur(op) == log[Idx(op)].t1 - log[Idx(op)].t0

Printed(msg) == \E k \in 1..Len(stdout) : stdout[k] = msg

PrintIdx(msg) == CHOOSE k \in 1..Len(stdout) : stdout[k] = msg

Errors == {"NameError", "TypeError", "ZeroDivisionError"}

CpuOps == {"cpu:generate", "cpu:start", "cpu:net_pay", "cpu:stop"}

GpuOps == {"gpu:start", "gpu:generate", "gpu:net_pay", "gpu:head", "gpu:stop"}

\* The operations that write df, in the order they happened.
TableOps ==
    SelectSeq(log, LAMBDA e : e.op \in {"cpu:generate", "gpu:generate",
                                        "cpu:net_pay", "gpu:net_pay"})

\* The last operation that wrote df was a recomputation of Net Pay.
NetPayRecomputed ==
    /\ TableOps # <<>>
    /\ TableOps[Len(TableOps)].op \in {"cpu:net_pay", "gpu:net_pay"}

SumOfDeductions(row) ==
    row.FederalTax + row.StateTax + row.SocialSecurity + row.Medicare
    + row.HealthInsurance + row.Retirement + row.OtherDeductions

---------------------------------------------------------------------------
(* C1 *)

\* C1: once Net Pay has been recomputed, on either path, the table still has
\* its n_rows rows and in every row Net Pay equals Gross Wages minus the sum
\* of the seven stored deduction columns, all as stored (in cents).
C1_NetPayIsGrossMinusDeductions ==
    NetPayRecomputed =>
        /\ Len(df) = n_rows
        /\ \A i \in 1..Len(df) :
            df[i].NetPay + SumOfDeductions(df[i]) = df[i].GrossWages

\* Both paths have recomputed Net Pay of a table of several rows.
C1_Witness ==
    /\ pc = "done"
    /\ device = "both"
    /\ Has("cpu:net_pay")
    /\ Has("gpu:net_pay")
    /\ NetPayRecomputed
    /\ Len(df) > 1

---------------------------------------------------------------------------
(* C2 *)

\* C2: with device "both" and cudf not importable, main never raises: the CPU
\* run completes and reports its time, the GPU run prints its error message
\* and returns None without generating a table, and no summary is printed and
\* no speedup computed.
C2_MissingCudfDoesNotAbort ==
    (device = "both" /\ ~cudf_installed) =>
        /\ pc \notin Errors
        /\ ~Has("gpu:generate")
        /\ ~Printed("gpu:running")
        /\ cpState = NotCreated
        /\ ~Printed("summary")
        /\ speedup = NoSpeedup
        /\ pc \in {"main_summary", "done"} =>
            /\ Has("cpu:net_pay")
            /\ cpu_time.kind = "float"
            /\ Printed("cpu:time")
            /\ Printed("gpu:error")
            /\ gpu_time = None

\* main has ended normally after a CPU run and a GPU run that found no cudf.
C2_Witness ==
    /\ device = "both"
    /\ ~cudf_installed
    /\ pc = "done"
    /\ Printed("cpu:time")
    /\ Printed("gpu:error")
    /\ gpu_time = None

---------------------------------------------------------------------------
(* C3 *)

\* C3: the table the GPU generator returns is the one it returns in a process
\* in which the CPU path did not run before it (np.random as the process
\* started it).
C3_GpuTableIndependentOfCpuRun ==
    pc = "gpu_net_pay" =>
        df = simulate_complex_payroll_data_gpu(n_rows, entropy).df

---------------------------------------------------------------------------
(* C4 *)

\* C4: every call of the CPU generator with the same n_rows returns the table
\* its first call returned, whatever was drawn from np.random in between.
C4_CpuGeneratorDeterministic ==
    calls.last.fn = "cpu" => calls.last.ret = calls.first_cpu

\* The CPU generator was called again with np.random left somewhere else than
\* where seeding puts it.
C4_Witness ==
    /\ calls.last.fn = "cpu"
    /\ calls.repeated
    /\ calls.last.np # random_seed(Seed)
    /\ calls.last.ret = calls.first_cpu

---------------------------------------------------------------------------
(* C5 *)

\* The number of decimal digits of n.
Digits(n) == CHOOSE k \in 1..9 : 10 ^ (k - 1) <= n /\ n < 10 ^ k

IsDigit(c) == \E d \in 1..10 : DigitChars[d] = c

DigitValue(c) == (CHOOSE d \in 1..10 : DigitChars[d] = c) - 1

RECURSIVE Value(_)
\* The number a string of digits denotes.
Value(str) ==
    IF Len(str) = 0 THEN 0
    ELSE 10 * Value(SubSeq(str, 1, Len(str) - 1))
         + DigitValue(SubSeq(str, Len(str), Len(str)))

\* C5: for both generators the Employee ID column has n_rows entries, the
\* i-th being the decimal numeral of i padded with leading zeros to
\* max(3, number of digits of n_rows) characters; the entries are pairwise
\* distinct.
C5_EmployeeIdsAreSequentialAndPadded ==
    pc \in {"ids_cpu", "ids_gpu"} =>
        /\ Len(employee_ids) = n_rows
        /\ \A i \in 1..Len(employee_ids) :
            /\ Len(employee_ids[i]) = (IF Digits(n_rows) > 3 THEN Digits(n_rows) ELSE 3)
            /\ \A k \in 1..Len(employee_ids[i]) :
                IsDigit(SubSeq(employee_ids[i], k, k))
            /\ Value(employee_ids[i]) = i
        /\ Cardinality({employee_ids[i] : i \in 1..Len(employee_ids)}) = n_rows

\* A table of a thousand rows, whose ids take four characters.
C5_Witness ==
    /\ pc = "ids_gpu"
    /\ n_rows = 1000
    /\ employee_ids[1] = "0001"
    /\ employee_ids[1000] = "1000"

---------------------------------------------------------------------------
(* C6 *)

\* x * rate rounded to the cent
RoundedShare(x, rate) == Round2(DMul(x, rate))

Distance(a, b) == IF a < b THEN b - a ELSE a - b

\* The last call was one of a generator, which returned the table df.
JustGenerated == calls.last.fn \in {"cpu", "gpu"}

\* C6 as the specification states it: in every row Social Security is 6.2% and
\* Medicare 1.45% of the stored (rounded) Gross Wages, rounded to the cent.
C6_SharesOfStoredGross ==
    JustGenerated => \A i \in 1..Len(df) :
        /\ df[i].SocialSecurity = RoundedShare(Stored(df[i].GrossWages), SocialSecurityRate)
        /\ df[i].Medicare = RoundedShare(Stored(df[i].GrossWages), MedicareRate)

\* C6: in every row of the table a generator returns Social Security is 6.2%
\* and Medicare 1.45% of the gross wages before they are rounded, each rounded
\* to the cent; the stored Gross Wages are the same unrounded amount rounded to
\* the cent, and each of the two is within one cent of the percentage of the
\* stored Gross Wages.
C6_SharesOfUnroundedGross ==
    JustGenerated =>
        /\ Len(gross_wages) = Len(df)
        /\ \A i \in 1..Len(df) :
            /\ df[i].GrossWages = Round2(gross_wages[i])
            /\ df[i].SocialSecurity = RoundedShare(gross_wages[i], SocialSecurityRate)
            /\ df[i].Medicare = RoundedShare(gross_wages[i], MedicareRate)
            /\ Distance(df[i].SocialSecurity,
                        RoundedShare(Stored(df[i].GrossWages), SocialSecurityRate)) <= 1
            /\ Distance(df[i].Medicare,
                        RoundedShare(Stored(df[i].GrossWages), MedicareRate)) <= 1

\* A generated row whose Social Security is not the rounded 6.2% of its stored
\* Gross Wages.
C6_Witness ==
    JustGenerated /\ \E i \in 1..Len(df) :
        /\ gross_wages[i] # Stored(df[i].GrossWages)
        /\ df[i].SocialSecurity = RoundedShare(gross_wages[i], SocialSecurityRate)
        /\ df[i].SocialSecurity # RoundedShare(Stored(df[i].GrossWages), SocialSecurityRate)

---------------------------------------------------------------------------
(* C7 *)

\* The Net Pay the generators store for a record with the given hours and the
\* rate, tax rates and flat deductions drawn from the given raw words; the raw
\* word RawRange is the upper end the draws approach.
StoredNetPay(regular, overtime, w_rate, w_federal, w_state, w_health, w_retire, w_other) ==
    LET gross == GrossWages(regular, overtime,
                            uniform_value(BaseRateRange.lo, BaseRateRange.hi, w_rate))
    IN  Round2(NetPay(gross,
            TotalDeductions(
                FederalTax(gross, uniform_value(FederalRateRange.lo, FederalRateRange.hi, w_federal)),
                StateTax(gross, uniform_value(StateRateRange.lo, StateRateRange.hi, w_state)),
                SocialSecurity(gross), Medicare(gross),
                uniform_value(HealthInsuranceRange.lo, HealthInsuranceRange.hi, w_health),
                uniform_value(RetirementRange.lo, RetirementRange.hi, w_retire),
                uniform_value(OtherDeductionsRange.lo, OtherDeductionsRange.hi, w_other))))

Extremes == {0, RawRange}

\* The least Net Pay of all: the fewest hours at the lowest rate, with every
\* deduction at the upper end of its range.
LeastNetPay == StoredNetPay(70, 0, 0, RawRange, RawRange, RawRange, RawRange, RawRange)

\* C7 as the specification states it: some record the generators can produce,
\* here with each draw at an end of its range, has a negative Net Pay.
C7_SomeNetPayNegative ==
    \/ \E i \in 1..Len(df) : df[i].NetPay < 0
    \/ \E regular \in 70..80, overtime \in 0..10 :
        \E w_rate \in Extremes, w_federal \in Extremes, w_state \in Extremes :
            \E w_health \in Extremes, w_retire \in Extremes, w_other \in Extremes :
                StoredNetPay(regular, overtime, w_rate, w_federal, w_state,
                             w_health, w_retire, w_other) < 0

\* C7: Net Pay is positive in every row of every table, as generated and as
\* recomputed; even the record with the least gross wages and the largest
\* deductions keeps a positive Net Pay.
C7_NetPayPositive ==
    /\ LeastNetPay > 0
    /\ \A i \in 1..Len(df) : df[i].NetPay > 0

\* A generated row with the least gross wages the generators give: 70 regular
\* hours, no overtime, at 15.00.
C7_Witness ==
    \E i \in 1..Len(df) :
        /\ df[i].RegularHours = 70
        /\ df[i].OvertimeHours = 0
        /\ df[i].GrossWages = 70 * 1500
        /\ df[i].NetPay > 0
        /\ df[i].NetPay < df[i].GrossWages

---------------------------------------------------------------------------
(* C8 *)

\* C8: the time the GPU run returns is the time from before the generation
\* to after the recomputation and the head, generation included; the time the
\* CPU run returns is the duration of the recomputation alone, the table
\* having been generated before the timer started; and each run prints its
\* time and sample only after its timer was stopped.
C8_TimedRegions ==
    /\ gpu_time.kind = "float" =>
        /\ \A op \in GpuOps : Has(op)
        /\ Idx("gpu:start") < Idx("gpu:generate")
        /\ Idx("gpu:generate") < Idx("gpu:net_pay")
        /\ Idx("gpu:net_pay") < Idx("gpu:head")
        /\ Idx("gpu:head") < Idx("gpu:stop")
        /\ gpu_time.val = Dur("gpu:generate") + Dur("gpu:net_pay") + Dur("gpu:head")
    /\ cpu_time.kind = "float" =>
        /\ \A op \in CpuOps : Has(op)
        /\ Idx("cpu:generate") < Idx("cpu:start")
        /\ Idx("cpu:start") < Idx("cpu:net_pay")
        /\ Idx("cpu:net_pay") < Idx("cpu:stop")
        /\ cpu_time.val = Dur("cpu:net_pay")
    /\ pc = "gpu_report" =>
        elapsed = Dur("gpu:generate") + Dur("gpu:net_pay") + Dur("gpu:head")
    /\ pc = "cpu_report" => elapsed = Dur("cpu:net_pay")
    /\ Printed("cpu:time") =>
        Has("cpu:stop") /\ PrintIdx("cpu:time") < PrintIdx("cpu:sample")
    /\ Printed("gpu:time") =>
        Has("gpu:stop") /\ PrintIdx("gpu:time") < PrintIdx("gpu:sample")

\* Both runs are over; generating took time in both, which the GPU time
\* counts and the CPU time does not.
C8_Witness ==
    /\ pc = "done"
    /\ device = "both"
    /\ gpu_time.kind = "float"
    /\ Dur("cpu:generate") > 0
    /\ cpu_time.val = 0
    /\ Dur("gpu:generate") > 0
    /\ gpu_time.val = Dur("gpu:generate")

---------------------------------------------------------------------------
(* C9 *)

\* Both runs have produced a time.
BothRan == device = "both" /\ cpu_time.kind = "float" /\ gpu_time.kind = "float"

\* C9: main never raises NameError or ZeroDivisionError; the summary is
\* printed only when both runs produced a time, after everything both runs
\* did and printed, the CPU run before the GPU run; main ends with the summary
\* printed exactly when both ran, the speedup then being cpu_time / gpu_time,
\* or infinity when gpu_time is 0; without the summary no speedup is computed.
C9_SummaryOnlyAfterBothRuns ==
    /\ pc \notin Errors
    /\ Printed("summary") =>
        /\ BothRan
        /\ pc = "done"
        /\ PrintIdx("cpu:sample") < PrintIdx("gpu:running")
        /\ PrintIdx("gpu:sample") < PrintIdx("summary")
        /\ \A j \in 1..Len(log), k \in 1..Len(log) :
            (log[j].op \in CpuOps /\ log[k].op \in GpuOps) => j < k
        /\ speedup = (IF gpu_time.val = 0 THEN Infinity
                      ELSE [kind |-> "float", num |-> cpu_time.val,
                            den |-> gpu_time.val])
    /\ pc = "done" => (Printed("summary") <=> BothRan)
    /\ ~Printed("summary") => speedup = NoSpeedup

\* main has ended with the summary printed after a GPU run that took no
\* measurable time: the speedup is infinity.
C9_Witness ==
    /\ pc = "done"
    /\ Printed("summary:speedup")
    /\ gpu_time = Float(0)
    /\ cpu_time.val > 0
    /\ speedup = Infinity

---------------------------------------------------------------------------
(* C10 *)

\* C10: compute_net_pay_cpu returns a table of the rows it was given in which
\* only Net Pay may differ, and applied to a table it returned it returns that
\* table unchanged.
C10_NetPayRecomputationIdempotent ==
    calls.last.fn = "net_pay" =>
        /\ df = calls.last.ret
        /\ Len(calls.last.ret) = Len(calls.last.arg)
        /\ \A i \in 1..Len(calls.last.arg) :
            [calls.last.ret[i] EXCEPT !.NetPay = calls.last.arg[i].NetPay]
                = calls.last.arg[i]
        /\ calls.applications > 1 => calls.last.ret = calls.last.arg

\* compute_net_pay_cpu was applied again to its own result, the first
\* application having changed the Net Pay the generator stored.
C10_Witness ==
    /\ calls.last.fn = "net_pay"
    /\ calls.applications > 1
    /\ calls.last.ret = calls.last.arg
    /\ calls.generated # calls.last.ret

===========================================================================
